---------------------------- MODULE Spec2Model ----------------------------
(***************************************************************************)
(* A model of src/util.ts of the logseq-omnivore plugin: the three GraphQL *)
(* fetch functions (loadArticle, loadArticles, loadDeletedArticleSlugs),   *)
(* the highlight position decoders and comparator, markdownEscape and      *)
(* parseDateTime.                                                          *)
(*                                                                         *)
(* Texts (patches, date strings, markdown) are sequences of string tokens; *)
(* the library calls util.ts makes on them (JSON.parse, patch_fromText,    *)
(* DateTime.fromFormat, markdown-escape) are operators that scan those     *)
(* tokens.  A JavaScript value is a tagged record; the outcome of a call   *)
(* is either Return(v) or Throw(e).                                        *)
(***************************************************************************)
EXTENDS Integers, Sequences, FiniteSets, TLC

(***************************************************************************)
(* Bounds of the model.                                                    *)
(***************************************************************************)
\* Coordinates and patch offsets range over 0..MaxCoord.
MaxCoord == 2
\* A response page carries at most MaxEdges edges.
MaxEdges == 2
\* Number of fetch calls in flight in SpecConc.
NumCalls == 2
\* A markdown text has at most MaxText characters.
MaxText == 2

(***************************************************************************)
(* JavaScript values and call outcomes.                                    *)
(***************************************************************************)
JUndef == [t |-> "undefined"]
JNull == [t |-> "null"]
JNum(n) == [t |-> "number", n |-> n]
JStr(s) == [t |-> "string", s |-> s]
JBool(b) == [t |-> "boolean", b |-> b]
JNaN == [t |-> "NaN"]
JArr(a) == [t |-> "array", a |-> a]
JObj(f) == [t |-> "object", f |-> f]

Return(v) == [thrown |-> FALSE, value |-> v]
Throw(e) == [thrown |-> TRUE, error |-> e]

\* Property read v[k] / v.k of JavaScript: a TypeError on undefined and null,
\* undefined for a property the value does not have.
HasProp(v, k) == v.t = "object" /\ k \in DOMAIN v.f
GetProp(v, k) ==
  IF v.t \in {"undefined", "null"} THEN Throw("TypeError")
  ELSE IF HasProp(v, k) THEN Return(v.f[k])
  ELSE Return(JUndef)

\* ToBoolean of JavaScript, as used by !x and x || y.
Truthy(v) ==
  CASE v.t = "undefined" -> FALSE
    [] v.t = "null" -> FALSE
    [] v.t = "NaN" -> FALSE
    [] v.t = "number" -> v.n # 0
    [] v.t = "string" -> v.s # <<>>
    [] v.t = "boolean" -> v.b
    [] OTHER -> TRUE

\* The length property: defined on arrays and strings, undefined elsewhere
\* (an object may carry a field named length).
LengthOf(v) ==
  CASE v.t = "array" -> JNum(Len(v.a))
    [] v.t = "string" -> JNum(Len(v.s))
    [] HasProp(v, "length") -> v.f["length"]
    [] OTHER -> JUndef

\* Indexed read v[i] (0-based) of an array; undefined out of range.
Index(v, i) ==
  IF v.t = "array" /\ i + 1 \in 1..Len(v.a) THEN v.a[i + 1]
  ELSE IF v.t = "string" /\ i + 1 \in 1..Len(v.s) THEN JStr(<<v.s[i + 1]>>)
  ELSE JUndef

(***************************************************************************)
(* Number tokens.                                                          *)
(***************************************************************************)
Coords == 0..MaxCoord
NumToks == {ToString(n) : n \in Coords}
IsNumTok(tok) == tok \in NumToks
ParseInt(tok) == CHOOSE n \in Coords : ToString(n) = tok

(***************************************************************************)
(* JSON.parse on a token text.  The grammar is JSON's: null, true, false,  *)
(* numbers, strings (quote, content, quote), arrays and objects.           *)
(***************************************************************************)
ParseFail == [ok |-> FALSE]
ParseOk(v, next) == [ok |-> TRUE, val |-> v, next |-> next]

RECURSIVE ParseValue(_, _)
RECURSIVE ParseElems(_, _, _)
RECURSIVE ParseMembers(_, _, _)

ParseElems(text, i, acc) ==
  LET r == ParseValue(text, i) IN
  IF ~r.ok \/ r.next > Len(text) THEN ParseFail
  ELSE IF text[r.next] = "," THEN ParseElems(text, r.next + 1, Append(acc, r.val))
  ELSE IF text[r.next] = "]" THEN ParseOk(JArr(Append(acc, r.val)), r.next + 1)
  ELSE ParseFail

ParseMembers(text, i, acc) ==
  IF i + 3 > Len(text) THEN ParseFail
  ELSE IF ~(text[i] = "\"" /\ text[i + 2] = "\"" /\ text[i + 3] = ":") THEN ParseFail
  ELSE
    LET key == text[i + 1]
        r == ParseValue(text, i + 4)
    IN
    IF ~r.ok \/ r.next > Len(text) THEN ParseFail
    ELSE
      LET f == (key :> r.val) @@ acc IN
      IF text[r.next] = "," THEN ParseMembers(text, r.next + 1, f)
      ELSE IF text[r.next] = "}" THEN ParseOk(JObj(f), r.next + 1)
      ELSE ParseFail

ParseValue(text, i) ==
  IF i > Len(text) THEN ParseFail
  ELSE IF text[i] = "null" THEN ParseOk(JNull, i + 1)
  ELSE IF text[i] = "true" THEN ParseOk(JBool(TRUE), i + 1)
  ELSE IF text[i] = "false" THEN ParseOk(JBool(FALSE), i + 1)
  ELSE IF IsNumTok(text[i]) THEN ParseOk(JNum(ParseInt(text[i])), i + 1)
  ELSE IF text[i] = "\"" THEN
    IF i + 2 <= Len(text) /\ text[i + 2] = "\""
    THEN ParseOk(JStr(<<text[i + 1]>>), i + 3)
    ELSE ParseFail
  ELSE IF text[i] = "[" THEN
    IF i + 1 <= Len(text) /\ text[i + 1] = "]"
    THEN ParseOk(JArr(<<>>), i + 2)
    ELSE ParseElems(text, i + 1, <<>>)
  ELSE IF text[i] = "{" THEN
    IF i + 1 <= Len(text) /\ text[i + 1] = "}"
    THEN ParseOk(JObj(<<>>), i + 2)
    ELSE ParseMembers(text, i + 1, <<>>)
  ELSE ParseFail

\* JSON.parse(text): the value, or a SyntaxError when the text is not one
\* JSON value followed by nothing.
JSONParse(text) ==
  LET r == ParseValue(text, 1) IN
  IF r.ok /\ r.next = Len(text) + 1 THEN Return(r.val)
  ELSE Throw("SyntaxError")

\* ToNumber of JavaScript and the binary minus built on it.
ToNumber(v) ==
  CASE v.t = "number" -> v
    [] v.t = "null" -> JNum(0)
    [] v.t = "boolean" -> JNum(IF v.b THEN 1 ELSE 0)
    [] OTHER -> JNaN
Minus(x, y) ==
  LET a == ToNumber(x)
      b == ToNumber(y)
  IN IF a.t = "number" /\ b.t = "number" THEN JNum(a.n - b.n) ELSE JNaN

\* x === y: NaN equals nothing, objects and arrays are compared by identity
\* (two values read from two parses are never the same object).
StrictEquals(x, y) ==
  /\ x.t = y.t
  /\ x.t \notin {"NaN", "array", "object"}
  /\ x = y

(***************************************************************************)
(* diff_match_patch.patch_fromText on a token text.  Lines are separated   *)
(* by the token "\n"; a header line is  @@ - n [, [n]] + n [, [n]] @@ ;    *)
(* a body line is a sign token (" ", "+", "-") and its content.            *)
(***************************************************************************)
At(line, i) == IF i \in 1..Len(line) THEN line[i] ELSE ""

RECURSIVE SplitLines(_, _, _)
SplitLines(text, i, cur) ==
  IF i > Len(text) THEN <<cur>>
  ELSE IF text[i] = "\n" THEN <<cur>> \o SplitLines(text, i + 1, <<>>)
  ELSE SplitLines(text, i + 1, Append(cur, text[i]))

\* The match of /^@@ -(\d+),?(\d*) \+(\d+),?(\d*) @@$/ against one line.
PatchHeader(line) ==
  LET m1 == At(line, 3)
      p2 == IF At(line, 4) = "," THEN 5 ELSE 4
      m2 == IF IsNumTok(At(line, p2)) THEN At(line, p2) ELSE ""
      pp == IF m2 = "" THEN p2 ELSE p2 + 1
      m3 == At(line, pp + 1)
      p4 == IF At(line, pp + 2) = "," THEN pp + 3 ELSE pp + 2
      m4 == IF IsNumTok(At(line, p4)) THEN At(line, p4) ELSE ""
      pe == IF m4 = "" THEN p4 ELSE p4 + 1
  IN IF /\ At(line, 1) = "@@" /\ At(line, 2) = "-" /\ IsNumTok(m1)
        /\ At(line, pp) = "+" /\ IsNumTok(m3)
        /\ At(line, pe) = "@@" /\ Len(line) = pe
     THEN [ok |-> TRUE, m1 |-> m1, m2 |-> m2, m3 |-> m3, m4 |-> m4]
     ELSE [ok |-> FALSE]

\* start and length of one side of a patch, from the header's two groups.
PatchStart(m, len) ==
  IF len = "" THEN ParseInt(m) - 1
  ELSE IF len = "0" THEN ParseInt(m)
  ELSE ParseInt(m) - 1
PatchLength(len) ==
  IF len = "" THEN 1 ELSE IF len = "0" THEN 0 ELSE ParseInt(len)

\* The inner loop over the body lines of one patch: where it stops, or the
\* error it throws.
RECURSIVE PatchBody(_, _)
PatchBody(lines, ptr) ==
  IF ptr > Len(lines) THEN [ok |-> TRUE, next |-> ptr]
  ELSE
    LET sign == At(lines[ptr], 1) IN
    IF At(lines[ptr], 2) = "%" THEN [ok |-> FALSE, error |-> "Illegal escape in patch_fromText"]
    ELSE IF sign \in {"-", "+", " ", ""} THEN PatchBody(lines, ptr + 1)
    ELSE IF sign = "@@" THEN [ok |-> TRUE, next |-> ptr]
    ELSE [ok |-> FALSE, error |-> "Invalid patch mode"]

RECURSIVE PatchLoop(_, _, _)
PatchLoop(lines, ptr, patches) ==
  IF ptr > Len(lines) THEN Return(JArr(patches))
  ELSE
    LET m == PatchHeader(lines[ptr]) IN
    IF ~m.ok THEN Throw("Invalid patch string")
    ELSE
      LET patch == JObj([start1 |-> JNum(PatchStart(m.m1, m.m2)),
                         length1 |-> JNum(PatchLength(m.m2)),
                         start2 |-> JNum(PatchStart(m.m3, m.m4)),
                         length2 |-> JNum(PatchLength(m.m4))])
          body == PatchBody(lines, ptr + 1)
      IN IF ~body.ok THEN Throw(body.error)
         ELSE PatchLoop(lines, body.next, Append(patches, patch))

patch_fromText(textline) ==
  IF textline = <<>> THEN Return(JArr(<<>>))
  ELSE PatchLoop(SplitLines(textline, 1, <<>>), 1, <<>>)

(***************************************************************************)
(* The highlight decoders and the comparator.                              *)
(***************************************************************************)
\* The length a bbox must have.
BboxLen == 4

HighlightPoint(left, top) == JObj([left |-> left, top |-> top])

\* return patches[0].start1 || 0
getHighlightLocation(patch) ==
  LET patches == patch_fromText(patch) IN
  IF patches.thrown THEN patches
  ELSE
    LET start1 == GetProp(Index(patches.value, 0), "start1") IN
    IF start1.thrown THEN start1
    ELSE IF Truthy(start1.value) THEN start1 ELSE Return(JNum(0))

getHighlightPoint(patch) ==
  LET parsed == JSONParse(patch) IN
  IF parsed.thrown THEN parsed
  ELSE
    LET bbox == GetProp(parsed.value, "bbox") IN
    IF bbox.thrown THEN bbox
    ELSE IF ~Truthy(bbox.value) \/ ~StrictEquals(LengthOf(bbox.value), JNum(BboxLen))
      THEN Return(HighlightPoint(JNum(0), JNum(0)))
      ELSE Return(HighlightPoint(Index(bbox.value, 0), Index(bbox.value, 1)))

\* compareHighlightsInFile without the tie-break on left.
compareHighlightsByTop(a, b) ==
  LET highlightPointA == getHighlightPoint(a.patch) IN
  IF highlightPointA.thrown THEN highlightPointA
  ELSE
    LET highlightPointB == getHighlightPoint(b.patch) IN
    IF highlightPointB.thrown THEN highlightPointB
    ELSE Return(Minus(highlightPointA.value.f.top, highlightPointB.value.f.top))

\* a and b are Highlight records; only their patch is read.
compareHighlightsInFile(a, b) ==
  LET highlightPointA == getHighlightPoint(a.patch) IN
  IF highlightPointA.thrown THEN highlightPointA
  ELSE
    LET highlightPointB == getHighlightPoint(b.patch) IN
    IF highlightPointB.thrown THEN highlightPointB
    ELSE
      LET pa == highlightPointA.value.f
          pb == highlightPointB.value.f
      IN IF StrictEquals(pa.top, pb.top)
         THEN Return(Minus(pa.left, pb.left))
         ELSE Return(Minus(pa.top, pb.top))

(***************************************************************************)
(* The server's side of the wire: a response value is serialised to the    *)
(* token text of the HTTP response body.                                   *)
(***************************************************************************)
RECURSIVE JSONStringify(_)
RECURSIVE StringifyElems(_, _)
RECURSIVE StringifyMembers(_, _)

StringifyElems(a, i) ==
  IF i > Len(a) THEN <<>>
  ELSE (IF i > 1 THEN <<",">> ELSE <<>>) \o JSONStringify(a[i]) \o StringifyElems(a, i + 1)

StringifyMembers(f, keys) ==
  IF keys = {} THEN <<>>
  ELSE
    LET k == CHOOSE x \in keys : TRUE IN
    <<"\"", k, "\"", ":">> \o JSONStringify(f[k])
      \o (IF keys = {k} THEN <<>> ELSE <<",">>)
      \o StringifyMembers(f, keys \ {k})

JSONStringify(v) ==
  CASE v.t = "null" -> <<"null">>
    [] v.t = "boolean" -> <<IF v.b THEN "true" ELSE "false">>
    [] v.t = "number" -> <<ToString(v.n)>>
    [] v.t = "string" -> <<"\"", v.s[1], "\"">>
    [] v.t = "array" -> <<"[">> \o StringifyElems(v.a, 1) \o <<"]">>
    [] v.t = "object" -> <<"{">> \o StringifyMembers(v.f, DOMAIN v.f) \o <<"}">>

(***************************************************************************)
(* The three fetch functions.  Each is an async function with two awaits:  *)
(* fetch(...) and res.json().  What runs after the second await is a pure  *)
(* function of the parsed body.                                            *)
(***************************************************************************)
\* The default page size (first = 10).
DefaultFirst == 10

UpdateReason == [CREATED |-> "CREATED", UPDATED |-> "UPDATED", DELETED |-> "DELETED"]

\* v.k1.k2...: the chained property read, throwing where a link is
\* undefined or null.
RECURSIVE Path(_, _)
Path(v, ks) ==
  IF ks = <<>> THEN Return(v)
  ELSE
    LET r == GetProp(v, Head(ks)) IN
    IF r.thrown THEN r ELSE Path(r.value, Tail(ks))

\* arr.filter(pred).map(proj) for pred = (edge) => edge[pk] === pv and
\* proj = (edge) => edge.k1.k2...; arr.map(proj) when pk is "".
RECURSIVE FilterMap(_, _, _, _, _, _)
FilterMap(a, i, pk, pv, proj, acc) ==
  IF i > Len(a) THEN Return(JArr(acc))
  ELSE
    LET test == IF pk = "" THEN Return(JBool(TRUE)) ELSE GetProp(a[i], pk) IN
    IF test.thrown THEN test
    ELSE IF pk # "" /\ ~StrictEquals(test.value, pv)
      THEN FilterMap(a, i + 1, pk, pv, proj, acc)
      ELSE
        LET r == Path(a[i], proj) IN
        IF r.thrown THEN r
        ELSE FilterMap(a, i + 1, pk, pv, proj, Append(acc, r.value))

\* edges.filter(...).map(...) where edges may be anything: calling a method
\* of undefined, or a method the value does not have, is a TypeError.
ArrayFilterMap(edges, pk, pv, proj) ==
  IF edges.t # "array" THEN Throw("TypeError")
  ELSE FilterMap(edges.a, 1, pk, pv, proj, <<>>)

\* [x, y]: the pair an async function returns.
Pair(x, y) == JArr(<<x, y>>)

\* return response.data.article.article
loadArticleBody(response) == Path(response, <<"data", "article", "article">>)

\* const articles = jsonRes.data.search.edges.map((e) => e.node)
\* return [articles, jsonRes.data.search.pageInfo.hasNextPage]
loadArticlesBody(jsonRes) ==
  LET edges == Path(jsonRes, <<"data", "search", "edges">>) IN
  IF edges.thrown THEN edges
  ELSE
    LET articles == ArrayFilterMap(edges.value, "", JUndef, <<"node">>) IN
    IF articles.thrown THEN articles
    ELSE
      LET hasNextPage == Path(jsonRes, <<"data", "search", "pageInfo", "hasNextPage">>) IN
      IF hasNextPage.thrown THEN hasNextPage
      ELSE Return(Pair(articles.value, hasNextPage.value))

\* loadDeletedArticleSlugsBody without the filter on updateReason.
loadDeletedArticleSlugsNoFilter(jsonRes) ==
  LET edges == Path(jsonRes, <<"data", "updatesSince", "edges">>) IN
  IF edges.thrown THEN edges
  ELSE
    LET slugs == ArrayFilterMap(edges.value, "", JUndef, <<"node", "slug">>) IN
    IF slugs.thrown THEN slugs
    ELSE
      LET hasNextPage ==
            Path(jsonRes, <<"data", "updatesSince", "pageInfo", "hasNextPage">>)
      IN
      IF hasNextPage.thrown THEN hasNextPage
      ELSE Return(Pair(slugs.value, hasNextPage.value))

\* const deletedArticleSlugs = jsonRes.data.updatesSince.edges
\*   .filter((edge) => edge.updateReason === UpdateReason.DELETED)
\*   .map((edge) => edge.node.slug)
\* return [deletedArticleSlugs, jsonRes.data.updatesSince.pageInfo.hasNextPage]
loadDeletedArticleSlugsBody(jsonRes) ==
  LET edges == Path(jsonRes, <<"data", "updatesSince", "edges">>) IN
  IF edges.thrown THEN edges
  ELSE
    LET deletedArticleSlugs ==
          ArrayFilterMap(edges.value, "updateReason",
                         JStr(<<UpdateReason.DELETED>>), <<"node", "slug">>)
    IN
    IF deletedArticleSlugs.thrown THEN deletedArticleSlugs
    ELSE
      LET hasNextPage ==
            Path(jsonRes, <<"data", "updatesSince", "pageInfo", "hasNextPage">>)
      IN
      IF hasNextPage.thrown THEN hasNextPage
      ELSE Return(Pair(deletedArticleSlugs.value, hasNextPage.value))

\* The code after `await res.json()`, given how that await settled.
AfterJson(f, json) ==
  IF json.thrown THEN json
  ELSE CASE f = "loadArticle" -> loadArticleBody(json.value)
         [] f = "loadArticles" -> loadArticlesBody(json.value)
         [] f = "loadDeletedArticleSlugs" -> loadDeletedArticleSlugsBody(json.value)

\* The request a call sends: the GraphQL operation and its variables.
\* `since` is updatedAt || '2021-01-01'; the search query is
\* (updatedAt ? 'updated:' + updatedAt : '') + ' sort:saved-asc ' + query.
Request(f, a) ==
  CASE f = "loadArticle" ->
         [operation |-> "GetArticle", username |-> "me", slug |-> a.slug]
    [] f = "loadArticles" ->
         [operation |-> "Search", after |-> a.after, first |-> a.first,
          query |-> (IF a.updatedAt # "" THEN <<"updated:", a.updatedAt>> ELSE <<>>)
                      \o <<" sort:saved-asc ", a.query>>]
    [] f = "loadDeletedArticleSlugs" ->
         [operation |-> "UpdatesSince", after |-> a.after, first |-> a.first,
          since |-> IF a.updatedAt # "" THEN a.updatedAt ELSE "2021-01-01"]

(***************************************************************************)
(* markdown-escape and markdownEscape.  A markdown text is a string of     *)
(* one-character tokens.                                                   *)
(***************************************************************************)
\* The library's replacement list, per character (the backquote, which it
\* also escapes with a backslash, is not among the characters modelled).
Replacement(ch) ==
  CASE ch = "*" -> <<"\\", "*">>
    [] ch = "#" -> <<"\\", "#">>
    [] ch = "/" -> <<"\\", "/">>
    [] ch = "(" -> <<"\\", "(">>
    [] ch = ")" -> <<"\\", ")">>
    [] ch = "[" -> <<"\\", "[">>
    [] ch = "]" -> <<"\\", "]">>
    [] ch = "<" -> <<"&", "l", "t", ";">>
    [] ch = ">" -> <<"&", "g", "t", ";">>
    [] ch = "_" -> <<"\\", "_">>
    [] OTHER -> <<ch>>

RECURSIVE ReplaceAll(_)
ReplaceAll(chars) ==
  IF chars = <<>> THEN <<>> ELSE Replacement(Head(chars)) \o ReplaceAll(Tail(chars))

\* escape(string): string.replace(...) for each replacement in turn; a
\* value that is no string has no replace method, and the call throws.
escape(text) ==
  IF text.t # "string" THEN Throw("TypeError")
  ELSE Return(JStr(ReplaceAll(text.s)))

\* markdownEscape without the try/catch.
markdownEscapeNoCatch(text) == escape(text)

\* try { return escape(text) } catch (e) { console.error(...); return text }
markdownEscape(text) ==
  LET r == escape(text) IN
  IF r.thrown THEN Return(text) ELSE r

(***************************************************************************)
(* luxon's DateTime.fromFormat and parseDateTime.  A date text and a       *)
(* format are token sequences: numerals and separators.                    *)
(***************************************************************************)
DATE_FORMAT_W_OUT_SECONDS == <<"yyyy", "-", "MM", "-", "dd", "'T'", "HH", ":", "mm">>
DATE_FORMAT == DATE_FORMAT_W_OUT_SECONDS \o <<":", "ss">>

Pad2(n) == IF n < 10 THEN "0" \o ToString(n) ELSE ToString(n)
\* The numerals of exactly two and of exactly four digits, with values.
TwoDigitToks == {Pad2(n) : n \in 0..99}
FourDigitToks == {ToString(n) : n \in 2000..2030}
TwoDigitValue == [tok \in TwoDigitToks |-> CHOOSE n \in 0..99 : Pad2(n) = tok]
FourDigitValue == [tok \in FourDigitToks |-> CHOOSE n \in 2000..2030 : ToString(n) = tok]

UnitOf(ftok) ==
  CASE ftok = "yyyy" -> "year"
    [] ftok = "MM" -> "month"
    [] ftok = "dd" -> "day"
    [] ftok = "HH" -> "hour"
    [] ftok = "mm" -> "minute"
    [] ftok = "ss" -> "second"
    [] OTHER -> "literal"

\* Whether one token of the text matches one token of the format.
TokenMatches(tok, ftok) ==
  CASE ftok = "yyyy" -> tok \in FourDigitToks
    [] ftok \in {"MM", "dd", "HH", "mm", "ss"} -> tok \in TwoDigitToks
    [] ftok = "'T'" -> tok = "T"
    [] OTHER -> tok = ftok

IsLeapYear(y) == y % 4 = 0 /\ (y % 100 # 0 \/ y % 400 = 0)
DaysInMonth(y, m) ==
  IF m = 2 THEN (IF IsLeapYear(y) THEN 29 ELSE 28)
  ELSE IF m \in {4, 6, 9, 11} THEN 30 ELSE 31

\* Units a format leaves out default to the start of their range.
UnitDefaults == [year |-> 1970, month |-> 1, day |-> 1, hour |-> 0, minute |-> 0, second |-> 0]

InRange(c) ==
  /\ c.month \in 1..12
  /\ c.day \in 1..DaysInMonth(c.year, c.month)
  /\ \/ c.hour \in 0..23
     \/ c.hour = 24 /\ c.minute = 0 /\ c.second = 0
  /\ c.minute \in 0..59
  /\ c.second \in 0..59

\* DateTime.fromFormat(text, fmt): the whole text must match the format,
\* token for token, and every unit must be in its range.
fromFormat(text, fmt) ==
  IF ~(Len(text) = Len(fmt) /\ \A i \in 1..Len(fmt) : TokenMatches(text[i], fmt[i]))
  THEN [isValid |-> FALSE, invalid |-> "unparsable"]
  ELSE
    LET read == [u \in DOMAIN UnitDefaults |->
                   IF \E i \in 1..Len(fmt) : UnitOf(fmt[i]) = u
                   THEN LET i == CHOOSE j \in 1..Len(fmt) : UnitOf(fmt[j]) = u
                        IN IF u = "year" THEN FourDigitValue[text[i]]
                           ELSE TwoDigitValue[text[i]]
                   ELSE UnitDefaults[u]]
    IN IF InRange(read) THEN [isValid |-> TRUE, c |-> read]
       ELSE [isValid |-> FALSE, invalid |-> "unit out of range"]

\* parseDateTime without the second attempt.
parseDateTimeNoFallback(str) ==
  [thrown |-> FALSE, value |-> fromFormat(str, DATE_FORMAT), formats |-> <<DATE_FORMAT>>]

\* const res = DateTime.fromFormat(str, DATE_FORMAT)
\* if (res.isValid) return res
\* return DateTime.fromFormat(str, DATE_FORMAT_W_OUT_SECONDS)
\* `formats` lists the formats fromFormat was called with, in order.
parseDateTime(str) ==
  LET res == fromFormat(str, DATE_FORMAT) IN
  IF res.isValid
  THEN [thrown |-> FALSE, value |-> res, formats |-> <<DATE_FORMAT>>]
  ELSE [thrown |-> FALSE, value |-> fromFormat(str, DATE_FORMAT_W_OUT_SECONDS),
        formats |-> <<DATE_FORMAT, DATE_FORMAT_W_OUT_SECONDS>>]

(***************************************************************************)
(* The server: what the endpoint may answer to each GraphQL operation.     *)
(***************************************************************************)
Slugs == {"a", "b"}
Reasons == {UpdateReason.CREATED, UpdateReason.UPDATED, UpdateReason.DELETED}

\* A text that is not JSON (a gateway's error page).
NotJson == <<"<html>">>

\* { data: { <field>: <payload> } }
Envelope(field, payload) == JObj([data |-> JObj(field :> payload)])
\* The error member of each operation's union: { errorCodes: [...] }.
ErrorPayload == JObj([errorCodes |-> JArr(<<JStr(<<"UNAUTHORIZED">>)>>)])
\* Answers that carry no success payload, whatever the operation.
FailureValues(field) ==
  { Envelope(field, ErrorPayload),
    Envelope(field, JNull),
    JObj([data |-> JNull]),
    JObj([errors |-> JArr(<<JStr(<<"INTERNAL">>)>>)]) }

ArticleValue(savedAt) == JObj([savedAt |-> JStr(<<savedAt>>)])
ArticleSuccess(article) == Envelope("article", JObj([article |-> article]))
Articles == {ArticleValue(d) : d \in {"2023-01-05", "2023-02-06"}}

SearchEdge(slug) == JObj([node |-> JObj([slug |-> JStr(<<slug>>)])])
UpdateEdge(e) ==
  JObj([updateReason |-> JStr(<<e.updateReason>>),
        node |-> JObj([slug |-> JStr(<<e.slug>>)])])
PageOf(field, edges, hasNextPage) ==
  Envelope(field, JObj([edges |-> JArr(edges),
                        pageInfo |-> JObj([hasNextPage |-> JBool(hasNextPage)])]))

SeqsUpTo(S, n) == UNION {[1..k -> S] : k \in 0..n}
MapSeq(Op(_), sq) == [i \in 1..Len(sq) |-> Op(sq[i])]

\* What the server knows of a page: the slugs (search) or the update
\* records (updatesSince), in order, and whether more pages exist.
SearchPages(n) == [slugs : SeqsUpTo(Slugs, n), hasNextPage : BOOLEAN]
UpdateRecords == [updateReason : Reasons, slug : Slugs]
UpdatePages(n) == [updates : SeqsUpTo(UpdateRecords, n), hasNextPage : BOOLEAN]

SearchBody(page) ==
  JSONStringify(PageOf("search", MapSeq(SearchEdge, page.slugs), page.hasNextPage))
UpdatesBody(page) ==
  JSONStringify(PageOf("updatesSince", MapSeq(UpdateEdge, page.updates), page.hasNextPage))
ArticleBody(article) == JSONStringify(ArticleSuccess(article))

FieldOf(operation) ==
  CASE operation = "GetArticle" -> "article"
    [] operation = "Search" -> "search"
    [] operation = "UpdatesSince" -> "updatesSince"

FailureBodies(operation) ==
  {NotJson} \cup {JSONStringify(v) : v \in FailureValues(FieldOf(operation))}

\* The bodies the server may send in answer to each operation, pages
\* holding at most MaxEdges edges.
GetArticleBodies == FailureBodies("GetArticle") \cup {ArticleBody(a) : a \in Articles}
SearchBodies ==
  FailureBodies("Search") \cup {SearchBody(pg) : pg \in SearchPages(MaxEdges)}
UpdatesSinceBodies ==
  FailureBodies("UpdatesSince") \cup {UpdatesBody(pg) : pg \in UpdatePages(MaxEdges)}
ServerBodies(operation) ==
  CASE operation = "GetArticle" -> GetArticleBodies
    [] operation = "Search" -> SearchBodies
    [] operation = "UpdatesSince" -> UpdatesSinceBodies
    [] OTHER -> {}

\* A few of those bodies per operation: not JSON, the error member, and
\* two one-edge pages (two articles).
SomeBodies(operation) ==
  CASE operation = "GetArticle" ->
         {NotJson, JSONStringify(Envelope("article", ErrorPayload))}
           \cup {ArticleBody(a) : a \in Articles}
    [] operation = "Search" ->
         {NotJson, JSONStringify(Envelope("search", ErrorPayload))}
           \cup {SearchBody([slugs |-> <<x>>, hasNextPage |-> FALSE]) : x \in Slugs}
    [] operation = "UpdatesSince" ->
         {NotJson, JSONStringify(Envelope("updatesSince", ErrorPayload))}
           \cup {UpdatesBody([updates |-> <<[updateReason |-> UpdateReason.DELETED,
                                             slug |-> x]>>,
                              hasNextPage |-> TRUE]) : x \in Slugs}
    [] OTHER -> {}

(***************************************************************************)
(* State.                                                                  *)
(***************************************************************************)
VARIABLES
  pc,       \* per call: "idle", "fetch" (awaiting fetch), "json" (awaiting
            \* res.json()), "settled" (the promise resolved or rejected)
  fn,       \* per call: the function called
  req,      \* per call: the request it sent
  sent,     \* per call: the number of HTTP requests it has issued
  wire,     \* per call: the body the server sent in answer to its request
  res,      \* per call: its local `res`, the Response fetch resolved with
  outcome,  \* per call: how its promise settled
  ucall,    \* the last call of a synchronous utility: function and arguments
  uret,     \* ... and how it completed
  hl,       \* the patch of each highlight of one file, by highlight id
  cmp       \* the comparator's results on pairs of them, as far as called

fvars == <<pc, fn, req, sent, wire, res, outcome>>
uvars == <<ucall, uret>>
svars == <<hl, cmp>>
vars == <<pc, fn, req, sent, wire, res, outcome, ucall, uret, hl, cmp>>

Calls == 1..NumCalls
Functions == {"loadArticle", "loadArticles", "loadDeletedArticleSlugs"}
Pending == [pending |-> TRUE]
NoRequest == [operation |-> "none"]
NoCall == [op |-> "none"]
HL == {"a", "b", "c"}
HLPairs == {<<"a", "b">>, <<"b", "a">>, <<"b", "c">>, <<"a", "c">>}

FetchInit ==
  /\ pc = [c \in Calls |-> "idle"]
  /\ fn = [c \in Calls |-> "none"]
  /\ req = [c \in Calls |-> NoRequest]
  /\ sent = [c \in Calls |-> 0]
  /\ wire = [c \in Calls |-> <<>>]
  /\ res = [c \in Calls |-> <<>>]
  /\ outcome = [c \in Calls |-> Pending]
UtilInit ==
  /\ ucall = NoCall
  /\ uret = Pending
SortIdle ==
  /\ hl = [h \in HL |-> <<>>]
  /\ cmp = [p \in HLPairs |-> Pending]

(***************************************************************************)
(* The steps of a fetch call.                                              *)
(***************************************************************************)
\* The arguments a caller passes (defaults filled in).
ArticleArgs == [slug : Slugs]
PageArgs ==
  [after : {0, DefaultFirst}, first : {DefaultFirst},
   updatedAt : {"", "2023-01-05"}, query : {""}]
ArgsOf(f) == IF f = "loadArticle" THEN ArticleArgs ELSE PageArgs
\* One argument list per function, for the calls that run side by side.
FirstPageArgs(f) ==
  IF f = "loadArticle" THEN {[slug |-> "a"]}
  ELSE {[after |-> 0, first |-> DefaultFirst, updatedAt |-> "", query |-> ""]}

\* The call starts: it builds the request and calls fetch, which sends it.
Invoke(c, f, a) ==
  /\ pc[c] = "idle"
  /\ fn' = [fn EXCEPT ![c] = f]
  /\ req' = [req EXCEPT ![c] = Request(f, a)]
  /\ sent' = [sent EXCEPT ![c] = @ + 1]
  /\ pc' = [pc EXCEPT ![c] = "fetch"]
  /\ UNCHANGED <<wire, res, outcome, uvars, svars>>

\* FetchReject with a retry: the request is sent again.
FetchRejectRetry(c) ==
  /\ pc[c] = "fetch"
  /\ sent' = [sent EXCEPT ![c] = @ + 1]
  /\ UNCHANGED <<pc, fn, req, wire, res, outcome, uvars, svars>>

\* fetch rejects (the network failed): the await throws, nothing catches
\* it, the call's promise rejects.
FetchReject(c) ==
  /\ pc[c] = "fetch"
  /\ outcome' = [outcome EXCEPT ![c] = Throw("NetworkError")]
  /\ pc' = [pc EXCEPT ![c] = "settled"]
  /\ UNCHANGED <<fn, req, sent, wire, res, uvars, svars>>

\* fetch resolves with the server's answer to this call's request.
FetchResolve(c, body) ==
  /\ pc[c] = "fetch"
  /\ wire' = [wire EXCEPT ![c] = body]
  /\ res' = [res EXCEPT ![c] = body]
  /\ pc' = [pc EXCEPT ![c] = "json"]
  /\ UNCHANGED <<fn, req, sent, outcome, uvars, svars>>

\* ResponseOf with one `res` shared by all calls (a module-level variable,
\* a cache): the slot holds the response of the first call that has one.
ResponseOfShared(c) ==
  res[CHOOSE d \in Calls : res[d] # <<>> /\ \A e \in Calls : e < d => res[e] = <<>>]

\* The Response the call reads its body from: its own local `res`.
ResponseOf(c) == res[c]

\* res.json() settles (it parsed the body, or the body is not JSON) and
\* the rest of the function runs to its return or throw.
JsonSettle(c) ==
  /\ pc[c] = "json"
  /\ outcome' = [outcome EXCEPT ![c] = AfterJson(fn[c], JSONParse(ResponseOf(c)))]
  /\ pc' = [pc EXCEPT ![c] = "settled"]
  /\ UNCHANGED <<fn, req, sent, wire, res, uvars, svars>>

\* res.json() rejects because the body could not be read to its end.
JsonReject(c) ==
  /\ pc[c] = "json"
  /\ outcome' = [outcome EXCEPT ![c] = Throw("NetworkError")]
  /\ pc' = [pc EXCEPT ![c] = "settled"]
  /\ UNCHANGED <<fn, req, sent, wire, res, uvars, svars>>

\* The caller takes the settled promise; the call's frame is gone.
Collect(c) ==
  /\ pc[c] = "settled"
  /\ pc' = [pc EXCEPT ![c] = "idle"]
  /\ fn' = [fn EXCEPT ![c] = "none"]
  /\ req' = [req EXCEPT ![c] = NoRequest]
  /\ sent' = [sent EXCEPT ![c] = 0]
  /\ wire' = [wire EXCEPT ![c] = <<>>]
  /\ res' = [res EXCEPT ![c] = <<>>]
  /\ outcome' = [outcome EXCEPT ![c] = Pending]
  /\ UNCHANGED <<uvars, svars>>

\* One caller, one call at a time, any arguments, any answer.
Init == FetchInit /\ UtilInit /\ SortIdle
Next ==
  \/ \E f \in Functions : \E a \in ArgsOf(f) : Invoke(1, f, a)
  \/ FetchReject(1)
  \/ \E body \in ServerBodies(req[1].operation) : FetchResolve(1, body)
  \/ JsonSettle(1)
  \/ JsonReject(1)
  \/ Collect(1)
Spec == Init /\ [][Next]_vars

\* Several calls in flight at once, their steps interleaved.
NextConc ==
  \E c \in Calls :
    \/ \E f \in Functions : \E a \in FirstPageArgs(f) : Invoke(c, f, a)
    \/ FetchReject(c)
    \/ \E body \in SomeBodies(req[c].operation) : FetchResolve(c, body)
    \/ JsonSettle(c)
    \/ JsonReject(c)
    \/ Collect(c)
SpecConc == Init /\ [][NextConc]_vars

(***************************************************************************)
(* The patches a highlight may carry.                                      *)
(***************************************************************************)
\* A spatial patch: {"bbox":[...]} with any numbers, of any length up to
\* one more than a bbox has.
BboxArrays == SeqsUpTo(Coords, BboxLen + 1)
BboxPatch(arr) == JSONStringify(JObj([bbox |-> JArr(MapSeq(JNum, arr))]))
\* JSON objects without a bbox field.
NoBboxPatches ==
  {JSONStringify(JObj(<<>>)), JSONStringify(JObj([page |-> JNum(0)]))}
\* JSON texts whose bbox is no array, and JSON texts that are no object.
OddJsonPatches ==
  { JSONStringify(JObj([bbox |-> JNull])),
    JSONStringify(JObj([bbox |-> JNum(0)])),
    JSONStringify(JObj([bbox |-> JStr(<<"x">>)])),
    JSONStringify(JObj([bbox |-> JObj(<<>>)])),
    JSONStringify(JNull),
    JSONStringify(JNum(0)),
    JSONStringify(JArr(<<>>)) }

\* A text patch as diff-match-patch writes it: a header with the start and
\* the optional length of each side, then the body lines.
LengthToks == {""} \cup NumToks
TextPatch(start, len) ==
  <<"@@", "-", start>> \o (IF len = "" THEN <<>> ELSE <<",", len>>)
    \o <<"+", start>> \o (IF len = "" THEN <<>> ELSE <<",", len>>)
    \o <<"@@", "\n", " ", "lorem", "\n", "+", "ipsum">>
TextPatches == {TextPatch(st, ln) : st \in NumToks, ln \in LengthToks}
\* Two text patches in one text.
TwoTextPatches ==
  {TextPatch(st, "") \o <<"\n">> \o TextPatch("0", "0") : st \in NumToks}
\* Texts that are neither: the empty text, a lone newline, a header cut
\* short, a body line with an unknown sign.
BrokenPatches ==
  { <<>>, <<"\n">>, <<"@@", "-", "0">>,
    <<"@@", "-", "0", "+", "0", "@@", "\n", "?", "lorem">> }

Patches ==
  {BboxPatch(arr) : arr \in BboxArrays} \cup NoBboxPatches \cup OddJsonPatches
    \cup TextPatches \cup TwoTextPatches \cup BrokenPatches

\* The patches the comparator is tried on in pairs.
ComparePatches ==
  {BboxPatch(<<x, y, 0, 0>>) : x \in {0, MaxCoord}, y \in {0, MaxCoord}}
    \cup NoBboxPatches \cup OddJsonPatches \cup BrokenPatches
    \cup {TextPatch(st, "") : st \in NumToks}

\* A file's highlights: a bbox at any point, or a JSON patch with no bbox.
PointPatch(pt) == BboxPatch(<<pt[1], pt[2], MaxCoord, MaxCoord>>)
FilePatches == {PointPatch(pt) : pt \in Coords \X Coords} \cup NoBboxPatches

(***************************************************************************)
(* Calls of the synchronous utilities.                                     *)
(***************************************************************************)
GetHighlightPointCall(patch) ==
  /\ ucall = NoCall
  /\ ucall' = [op |-> "getHighlightPoint", patch |-> patch]
  /\ uret' = getHighlightPoint(patch)
  /\ UNCHANGED <<fvars, svars>>

GetHighlightLocationCall(patch) ==
  /\ ucall = NoCall
  /\ ucall' = [op |-> "getHighlightLocation", patch |-> patch]
  /\ uret' = getHighlightLocation(patch)
  /\ UNCHANGED <<fvars, svars>>

CompareCall(a, b) ==
  /\ ucall = NoCall
  /\ ucall' = [op |-> "compareHighlightsInFile", a |-> a, b |-> b]
  /\ uret' = compareHighlightsInFile(a, b)
  /\ UNCHANGED <<fvars, svars>>

Highlight(id, patch) == [id |-> id, patch |-> patch]

\* The values markdownEscape is called with: texts over a few characters,
\* and what an absent field of an article is at run time.
Chars == {"a", "*", "_", "<"}
Texts == {JStr(cs) : cs \in SeqsUpTo(Chars, MaxText)} \cup {JNull, JUndef}

MarkdownEscapeCall(text) ==
  /\ ucall = NoCall
  /\ ucall' = [op |-> "markdownEscape", text |-> text]
  /\ uret' = markdownEscape(text)
  /\ UNCHANGED <<fvars, svars>>

\* Date texts, as written from their components: with seconds, without
\* seconds, with a zone designator appended, and with unpadded numerals.
DateShapes == {"ss", "mm", "ssZ", "unpadded"}
DateText(c, shape) ==
  CASE shape = "ss" ->
         <<ToString(c.year), "-", Pad2(c.month), "-", Pad2(c.day), "T",
           Pad2(c.hour), ":", Pad2(c.minute), ":", Pad2(c.second)>>
    [] shape = "mm" ->
         <<ToString(c.year), "-", Pad2(c.month), "-", Pad2(c.day), "T",
           Pad2(c.hour), ":", Pad2(c.minute)>>
    [] shape = "ssZ" ->
         <<ToString(c.year), "-", Pad2(c.month), "-", Pad2(c.day), "T",
           Pad2(c.hour), ":", Pad2(c.minute), ":", Pad2(c.second), "Z">>
    [] shape = "unpadded" ->
         <<ToString(c.year), "-", ToString(c.month), "-", ToString(c.day), "T",
           ToString(c.hour), ":", ToString(c.minute)>>
\* Components of dates that exist ...
GoodDates ==
  [year : {2023, 2024}, month : {1, 12}, day : {5, 31},
   hour : {0, 23}, minute : {0, 59}, second : {0, 59}]
    \cup {[year |-> 2024, month |-> 2, day |-> 29, hour |-> 10, minute |-> 30, second |-> 0],
          [year |-> 2023, month |-> 1, day |-> 5, hour |-> 24, minute |-> 0, second |-> 0]}
\* ... and of dates that do not: one component out of its range.
BadDates ==
  LET ok == [year |-> 2023, month |-> 1, day |-> 5, hour |-> 10, minute |-> 30, second |-> 0]
  IN { [ok EXCEPT !.month = 13], [ok EXCEPT !.month = 0], [ok EXCEPT !.day = 32],
       [ok EXCEPT !.day = 0], [ok EXCEPT !.month = 2, !.day = 29],
       [ok EXCEPT !.hour = 25], [ok EXCEPT !.hour = 24, !.minute = 30],
       [ok EXCEPT !.minute = 60], [ok EXCEPT !.second = 60] }
NotADate == <<"not", "-", "a", "-", "date">>

\* `made` records how the text was written; parseDateTime sees only str.
ParseDateTimeCall(str, made) ==
  /\ ucall = NoCall
  /\ ucall' = [op |-> "parseDateTime", str |-> str, made |-> made]
  /\ uret' = parseDateTime(str)
  /\ UNCHANGED <<fvars, svars>>

\* The caller takes the result.
UtilReturn ==
  /\ ucall # NoCall
  /\ ucall' = NoCall
  /\ uret' = Pending
  /\ UNCHANGED <<fvars, svars>>

NextUtil ==
  \/ \E patch \in Patches : GetHighlightPointCall(patch)
  \/ \E patch \in Patches : GetHighlightLocationCall(patch)
  \/ \E pa \in ComparePatches : \E pb \in ComparePatches :
       CompareCall(Highlight("a", pa), Highlight("b", pb))
  \/ \E text \in Texts : MarkdownEscapeCall(text)
  \/ \E c \in GoodDates \cup BadDates : \E shape \in DateShapes :
       /\ shape \in {"mm", "unpadded"} => c.second = 0
       /\ shape = "unpadded" => DateText(c, shape) # DateText(c, "mm")
       /\ ParseDateTimeCall(DateText(c, shape), [c |-> c, shape |-> shape])
  \/ ParseDateTimeCall(NotADate, [shape |-> "none"])
  \/ UtilReturn
SpecUtil == Init /\ [][NextUtil]_vars

(***************************************************************************)
(* Sorting the highlights of one file: highlights.sort(comparator) calls   *)
(* the comparator on pairs of them, in an order of its own.                *)
(***************************************************************************)
InitSort ==
  /\ FetchInit /\ UtilInit
  /\ hl \in [HL -> FilePatches]
  /\ cmp = [p \in HLPairs |-> Pending]

SortCompare(p) ==
  /\ cmp[p] = Pending
  /\ cmp' = [cmp EXCEPT ![p] =
               compareHighlightsInFile(Highlight(p[1], hl[p[1]]),
                                       Highlight(p[2], hl[p[2]]))]
  /\ UNCHANGED <<fvars, uvars, hl>>

NextSort == \E p \in HLPairs : SortCompare(p)
SpecSort == InitSort /\ [][NextSort]_vars

(***************************************************************************)
(* Properties.                                                             *)
(***************************************************************************)
Settled(c, f) == pc[c] = "settled" /\ fn[c] = f
\* The call got a response whose body could be read to its end.
BodyRead(c) == wire[c] # <<>> /\ outcome[c] # Throw("NetworkError")

\* The page each page body was written from.
UpdatesBodyOf == [page \in UpdatePages(MaxEdges) |-> UpdatesBody(page)]
SearchBodyOf == [page \in SearchPages(MaxEdges) |-> SearchBody(page)]
UpdatesPageOf ==
  [body \in {UpdatesBodyOf[pg] : pg \in UpdatePages(MaxEdges)} |->
     CHOOSE pg \in UpdatePages(MaxEdges) : UpdatesBodyOf[pg] = body]
SearchPageOf ==
  [body \in {SearchBodyOf[pg] : pg \in SearchPages(MaxEdges)} |->
     CHOOSE pg \in SearchPages(MaxEdges) : SearchBodyOf[pg] = body]

RECURSIVE DeletedSlugs(_)
DeletedSlugs(updates) ==
  IF updates = <<>> THEN <<>>
  ELSE (IF Head(updates).updateReason = "DELETED" THEN <<Head(updates).slug>> ELSE <<>>)
         \o DeletedSlugs(Tail(updates))
SlugValue(slug) == JStr(<<slug>>)
NodeValue(slug) == JObj([slug |-> JStr(<<slug>>)])

\* C1: for every updatesSince page the server sends, loadDeletedArticleSlugs
\* returns the slugs of the DELETED updates, in the page's order and no
\* others, paired with the page's hasNextPage.
C1_DeletedSlugsOfPage ==
  \A c \in Calls :
    Settled(c, "loadDeletedArticleSlugs") /\ BodyRead(c) /\ wire[c] \in DOMAIN UpdatesPageOf
      => LET page == UpdatesPageOf[wire[c]] IN
         outcome[c] = Return(Pair(JArr(MapSeq(SlugValue, DeletedSlugs(page.updates))),
                                  JBool(page.hasNextPage)))
\* The spec's example: edges [DELETED a, UPDATED b] give (["a"], hasNextPage).
C1_Witness ==
  /\ Settled(1, "loadDeletedArticleSlugs")
  /\ wire[1] = UpdatesBody([updates |-> <<[updateReason |-> "DELETED", slug |-> "a"],
                                          [updateReason |-> "UPDATED", slug |-> "b"]>>,
                            hasNextPage |-> TRUE])
  /\ outcome[1] = Return(Pair(JArr(<<JStr(<<"a">>)>>), JBool(TRUE)))

\* The bodies that carry data.article.article.
ArticleBodies == {ArticleBody(a) : a \in Articles}
\* C2: loadArticle throws whenever the network call fails, the body is not
\* JSON, or the response lacks any level of data.article.article; it never
\* completes normally without an article.
C2_LoadArticleThrowsWithoutArticle ==
  \A c \in Calls :
    Settled(c, "loadArticle") /\ wire[c] \notin ArticleBodies => outcome[c].thrown

\* C7: a call of loadArticles or loadDeletedArticleSlugs has issued exactly
\* one request from its start to its end; a network or parse failure
\* reaches the caller; a page that was read is returned as it is, in edge
\* order with its hasNextPage, also when hasNextPage is true.
C7_OneRequestPerCall ==
  \A c \in Calls :
    fn[c] \in {"loadArticles", "loadDeletedArticleSlugs"} =>
      /\ sent[c] = 1
      /\ pc[c] = "settled" /\ wire[c] = <<>> => outcome[c] = Throw("NetworkError")
      /\ pc[c] = "settled" /\ wire[c] = NotJson =>
           outcome[c] \in {Throw("SyntaxError"), Throw("NetworkError")}
      /\ pc[c] = "settled" /\ BodyRead(c) /\ wire[c] \in DOMAIN SearchPageOf
           => LET page == SearchPageOf[wire[c]] IN
              outcome[c] = Return(Pair(JArr(MapSeq(NodeValue, page.slugs)),
                                       JBool(page.hasNextPage)))
      /\ pc[c] = "settled" /\ BodyRead(c) /\ wire[c] \in DOMAIN UpdatesPageOf
           => /\ ~outcome[c].thrown
              /\ outcome[c].value.a[2] = JBool(UpdatesPageOf[wire[c]].hasNextPage)
\* A page with a next page was returned after one request.
C7_Witness ==
  /\ Settled(1, "loadArticles")
  /\ sent[1] = 1
  /\ wire[1] = SearchBody([slugs |-> <<"b", "a">>, hasNextPage |-> TRUE])
  /\ outcome[1] = Return(Pair(JArr(<<NodeValue("b"), NodeValue("a")>>), JBool(TRUE)))

\* C10: whatever the other calls do meanwhile, a settled call's result is
\* the one it has when run alone: the network failure when its fetch was
\* rejected, and otherwise what the function makes of the answer to its own
\* request (or the failure to read that answer).
C10_ResultOfOwnResponse ==
  \A c \in Calls :
    pc[c] = "settled" =>
      IF wire[c] = <<>> THEN outcome[c] = Throw("NetworkError")
      ELSE outcome[c] \in {AfterJson(fn[c], JSONParse(wire[c])), Throw("NetworkError")}
\* Call 2 settled with its own result while call 1 holds another answer.
C10_Witness ==
  /\ pc[1] = "json" /\ pc[2] = "settled"
  /\ fn[1] = fn[2]
  /\ wire[1] # wire[2]
  /\ ~outcome[2].thrown

(***************************************************************************)
(* Properties of the highlight utilities.                                  *)
(***************************************************************************)
Sign(n) == IF n < 0 THEN -1 ELSE IF n = 0 THEN 0 ELSE 1
\* The point a file patch is written from: <<left, top>>.
PointOfPatch ==
  [patch \in FilePatches |->
     IF \E pt \in Coords \X Coords : patch = PointPatch(pt)
     THEN CHOOSE pt \in Coords \X Coords : patch = PointPatch(pt)
     ELSE <<0, 0>>]
\* The order of two points by (top, left): -1, 0 or 1.
LexSign(p, q) ==
  IF p[2] # q[2] THEN Sign(p[2] - q[2]) ELSE Sign(p[1] - q[1])
Called(p) == cmp[p] # Pending
IsNumber(r) == ~r.thrown /\ r.value.t = "number"

\* C3: on highlights at integer points the comparator's sign is that of
\* the lexicographic order on (top, left); so it is antisymmetric and
\* transitive.
C3_ComparatorIsLexOrder ==
  /\ \A p \in HLPairs :
       Called(p) =>
         /\ IsNumber(cmp[p])
         /\ Sign(cmp[p].value.n) = LexSign(PointOfPatch[hl[p[1]]], PointOfPatch[hl[p[2]]])
  /\ Called(<<"a", "b">>) /\ Called(<<"b", "a">>) =>
       Sign(cmp[<<"a", "b">>].value.n) = -Sign(cmp[<<"b", "a">>].value.n)
  /\ /\ Called(<<"a", "b">>) /\ Called(<<"b", "c">>) /\ Called(<<"a", "c">>)
     /\ cmp[<<"a", "b">>].value.n <= 0 /\ cmp[<<"b", "c">>].value.n <= 0
     => cmp[<<"a", "c">>].value.n <= 0
\* The spec's example (same top, a to the right of b, positive), in a
\* chain a > b > c with all pairs compared.
C3_Witness ==
  /\ \A p \in HLPairs : Called(p)
  /\ hl["a"] = PointPatch(<<MaxCoord, 1>>) /\ hl["b"] = PointPatch(<<0, 1>>)
  /\ hl["c"] = PointPatch(<<MaxCoord, 0>>)
  /\ cmp[<<"a", "b">>].value.n > 0 /\ cmp[<<"b", "c">>].value.n > 0
  /\ cmp[<<"b", "a">>].value.n < 0

BboxPatchOf == [arr \in BboxArrays |-> BboxPatch(arr)]
Origin == HighlightPoint(JNum(0), JNum(0))

\* The reference decoder: the first two numbers of a bbox of four, and
\* the origin for every other patch.
ReferencePoint(patch) ==
  IF \E arr \in BboxArrays : Len(arr) = BboxLen /\ patch = BboxPatchOf[arr]
  THEN LET arr == CHOOSE x \in BboxArrays : Len(x) = BboxLen /\ patch = BboxPatchOf[x]
       IN HighlightPoint(JNum(arr[1]), JNum(arr[2]))
  ELSE Origin

\* C4: getHighlightPoint agrees with the reference decoder on every patch:
\* {left: x, top: y} for a patch with a bbox of four numbers [x, y, w, h],
\* and {left: 0, top: 0} for a patch with no bbox or a bbox of another
\* length.
C4_PointOfEveryPatch ==
  ucall.op = "getHighlightPoint" => uret = Return(ReferencePoint(ucall.patch))

\* What does hold of getHighlightPoint: the agreement on the patches that
\* are JSON texts other than null (objects with or without a bbox, of any
\* length; numbers; arrays).
JsonPatches ==
  {BboxPatchOf[arr] : arr \in BboxArrays} \cup NoBboxPatches
    \cup (OddJsonPatches \ {JSONStringify(JNull)})
PointOfJsonPatch ==
  ucall.op = "getHighlightPoint" /\ ucall.patch \in JsonPatches
    => uret = Return(ReferencePoint(ucall.patch))

\* C5: getHighlightLocation returns the start1 of the first patch when the
\* text decodes to at least one, and 0, without throwing, when the decoded
\* list is empty or the first patch has no start.
C5_LocationOrZero ==
  ucall.op = "getHighlightLocation" =>
    LET patches == patch_fromText(ucall.patch) IN
    ~patches.thrown =>
      IF patches.value.a = <<>> THEN uret = Return(JNum(0))
      ELSE uret = IF HasProp(patches.value.a[1], "start1")
                  THEN Return(patches.value.a[1].f.start1)
                  ELSE Return(JNum(0))

\* C6: the comparator, on two highlights whose patches are text patches
\* (no bbox), completes without an error and returns 0.
C6_TextPatchesCompareEqual ==
  ucall.op = "compareHighlightsInFile"
    /\ ucall.a.patch \in TextPatches /\ ucall.b.patch \in TextPatches
    => uret = Return(JNum(0))

(***************************************************************************)
(* Properties of the text utilities.                                       *)
(***************************************************************************)
\* C8: markdownEscape never throws; its result is the library's when the
\* library returns one, and the text it was given when the library throws.
C8_EscapeFailsOpen ==
  ucall.op = "markdownEscape" =>
    /\ ~uret.thrown
    /\ uret.value = IF ucall.text.t = "string"
                    THEN JStr(ReplaceAll(ucall.text.s))
                    ELSE ucall.text
\* The library threw on null, and null came back.
C8_Witness ==
  /\ ucall.op = "markdownEscape"
  /\ ucall.text = JNull
  /\ escape(ucall.text).thrown
  /\ uret = Return(JNull)

\* C9: parseDateTime tries the format with seconds first and the format
\* without seconds only when that result is invalid; a text written with
\* seconds parses to its date, a text written without seconds parses to its
\* date at second 0, and any other text gives an invalid result, not a
\* throw.
C9_TwoFormats ==
  ucall.op = "parseDateTime" =>
    LET made == ucall.made
        first == made.shape = "ss" /\ made.c \in GoodDates
        second == made.shape = "mm" /\ made.c \in GoodDates
    IN /\ ~uret.thrown
       /\ uret.formats = IF first THEN <<DATE_FORMAT>>
                         ELSE <<DATE_FORMAT, DATE_FORMAT_W_OUT_SECONDS>>
       /\ first => uret.value = [isValid |-> TRUE, c |-> made.c]
       /\ second => uret.value = [isValid |-> TRUE, c |-> [made.c EXCEPT !.second = 0]]
       /\ ~first /\ ~second => ~uret.value.isValid
\* The spec's second example: "2023-01-05T10:30" parses by the fallback.
C9_Witness ==
  /\ ucall.op = "parseDateTime"
  /\ ucall.str = <<"2023", "-", "01", "-", "05", "T", "23", ":", "59">>
  /\ uret.formats = <<DATE_FORMAT, DATE_FORMAT_W_OUT_SECONDS>>
  /\ uret.value.isValid
  /\ uret.value.c.minute = 59 /\ uret.value.c.second = 0

=============================================================================
